---------------------------- MODULE Spec2Model ----------------------------
(***************************************************************************)
(* A model of the vehicle rig of the soft-body car simulation:             *)
(* class Car and class PhysicsWorld of js/physics.js, driven by the key    *)
(* handlers of Car.setupControls and by animate() of js/main.js.           *)
(*                                                                         *)
(* Units.  Lengths are integers in units of 1/2100 m: every rest offset of *)
(* the rig (1.35, -0.3, 0.9, 2.35, -1.4/3, -0.81 + i*1.62/7) is a whole    *)
(* number of such units, so the arithmetic of the source is exact here.    *)
(* Times are in units of 1/3 ms (1/60 s is 50 units, 0.1 s is 300) and    *)
(* angles in units of 1/3 mrad (0.5 rad is 1500), so that 2.0 rad/s is     *)
(* 2 angle units per time unit.  Damping coefficients are in hundredths,   *)
(* masses in 0.1 kg, velocities in 0.1 m/s.  Floating-point rounding is    *)
(* not modelled.  Sequences are 1-based: wheel i of the source (0..3) is   *)
(* wheel i+1 here, bumper particle i (0..7) is particle i+1.               *)
(*                                                                         *)
(* The rigid-body engine (CANNON.World.step) is external code: one step is *)
(* a choice among the outcomes of StepOutcomes.                            *)
(***************************************************************************)
EXTENDS Integers, Sequences, FiniteSets, TLC

(***************************************************************************)
(* Bounds of the model.                                                    *)
(***************************************************************************)
\* how many drive displacements the engine may move the rig away from its spawn
MaxDrive == 1
\* how many keys of the controls may be held down at a time
MaxHeld == 2
\* how many applied forces may be pending on a body when the engine step throws
MaxPending == 1
\* how many ticks of the clock the timestamps of the frames may reach
MaxTicks == 4

(***************************************************************************)
(* Program constants, in the units above.                                  *)
(***************************************************************************)
Unit == 21 * 100
maxSteeringAngle == 1500
maxForce == 500
width == 3780
length == 9450
height == 2940
wheelRadius == 840
steeringSpeed == 2
steeringReturnSpeed == 3
segments == 8
SanityFloor == -21000
MaxDeltaTime == 300
DefaultStep == 50
Tick == MaxDeltaTime \div 2
chassisMass == 15000
wheelMass == 300
bumperMass == 1000
bumperStiffness == 1000
bumperDamping == 30
suspensionMaxForce == 500
hingeMaxForce == 1000000

(***************************************************************************)
(* JavaScript numbers that may be NaN (a delta time).                      *)
(***************************************************************************)
Num(n) == [nan |-> FALSE, v |-> n]

NaN == [nan |-> TRUE, v |-> 0]

isNaN(d) == d.nan

Min(a, b) == IF a <= b THEN a ELSE b

Max(a, b) == IF a >= b THEN a ELSE b

(***************************************************************************)
(* Vectors (CANNON.Vec3).                                                  *)
(***************************************************************************)
Vec(a, b, c) == [x |-> a, y |-> b, z |-> c]

Zero3 == Vec(0, 0, 0)

VAdd(u, v) == Vec(u.x + v.x, u.y + v.y, u.z + v.z)

VSub(u, v) == Vec(u.x - v.x, u.y - v.y, u.z - v.z)

\* floor of the square root, exact on perfect squares
RECURSIVE SqrtBetween(_, _, _)
SqrtBetween(n, lo, hi) ==
    IF lo >= hi THEN lo
    ELSE LET mid == (lo + hi + 1) \div 2
         IN IF mid * mid <= n
            THEN SqrtBetween(n, mid, hi)
            ELSE SqrtBetween(n, lo, mid - 1)

\* 46340 is the largest root whose square is a 32-bit integer
Isqrt(n) == SqrtBetween(n, 0, Min(n, 46340))

\* Vec3.length
VLength(v) == Isqrt(v.x * v.x + v.y * v.y + v.z * v.z)

\* Vec3.distanceTo
distanceTo(u, v) == VLength(VSub(u, v))

(***************************************************************************)
(* Orientations (CANNON.Quaternion), kept symbolically as the product of   *)
(* axis-angle rotations that built them; an angle is mrad/3000 + quarter*pi/2*)
(* The identity quaternion (0,0,0,1) is the empty product.                 *)
(***************************************************************************)
Angle(m, q) == [mrad |-> m, quarter |-> q]

\* Quaternion.setFromAxisAngle: a rotation by angle zero is the identity
setFromAxisAngle(axis, angle) ==
    IF angle.mrad = 0 /\ angle.quarter % 4 = 0
    THEN << >>
    ELSE << [axis |-> axis, angle |-> Angle(angle.mrad, angle.quarter % 4)] >>

IdentityQuat == << >>

\* Quaternion.mult: p * q, rotations about the same axis add up
mult(p, q) ==
    IF p = << >> THEN q
    ELSE IF q = << >> THEN p
    ELSE IF p[Len(p)].axis = q[1].axis
    THEN LET a == p[Len(p)].angle
             b == q[1].angle
             s == setFromAxisAngle(q[1].axis,
                                   Angle(a.mrad + b.mrad, a.quarter + b.quarter))
         IN SubSeq(p, 1, Len(p) - 1) \o s \o Tail(q)
    ELSE p \o q

\* the rotation createWheelBody gives a wheel: a quarter turn about Z
DefaultWheelQuat == setFromAxisAngle("z", Angle(0, 1))

\* Quaternion.vmult, kept symbolic: the orientation applied to a local vector
vmult(q, v) == [rot |-> q, local |-> v]

(***************************************************************************)
(* Rigid bodies (CANNON.Body).                                             *)
(***************************************************************************)
NewBody(m, pos, quat, angDamp, linDamp) ==
    [mass            |-> m,
     position        |-> pos,
     quaternion      |-> quat,
     velocity        |-> Zero3,
     angularVelocity |-> Zero3,
     angularDamping  |-> angDamp,
     linearDamping   |-> linDamp,
     force           |-> << >>]

\* Body.applyForce(force, worldPoint): the force is added to the body's pending forces
applyForce(b, f, worldPoint) ==
    [b EXCEPT !.force = Append(@, [force |-> f, at |-> VSub(worldPoint, b.position)])]

(***************************************************************************)
(* The simulation state S the operations work on:                          *)
(*   S.body           the bodies, by identity (a body's id is its index)   *)
(*   S.physicsWorld   PhysicsWorld: bodies (the tracked list, of ids) and  *)
(*                    constraints (world.constraints)                      *)
(*   S.car            the Car object; its bodies are held by id            *)
(*   S.mesh           per body, its userData.mesh: whether it has one, and *)
(*                    the position and orientation of that mesh            *)
(*   S.resetRan       history: Car.reset ran in the operation under way    *)
(*   S.log            history: the calls of the operation under way, in    *)
(*                    their order                                          *)
(*   S.thrown         an exception is on its way up to a catch             *)
(*   S.main           the globals of main.js: lastTime, and pending: a     *)
(*                    callback of requestAnimationFrame is waiting         *)
(***************************************************************************)
\* a call, with the delta time it was handed, joins the history
Called(S, name, deltaTime) ==
    [S EXCEPT !.log = Append(@, [call |-> name, deltaTime |-> deltaTime])]

\* body.userData of a body that was given no mesh, and of one that was: the
\* position and the orientation of the THREE.Mesh
NoMesh == [tracked |-> FALSE, position |-> Zero3, quaternion |-> IdentityQuat]

Mesh(position, quaternion) ==
    [tracked |-> TRUE, position |-> position, quaternion |-> quaternion]

\* PhysicsWorld.addBody: the body joins the world and the tracked list
addBody(S, b) ==
    [S EXCEPT !.body = Append(@, b),
              !.mesh = Append(@, NoMesh),
              !.physicsWorld.bodies = Append(@, Len(S.body) + 1)]

\* PhysicsWorld.createWheelBody
createWheelBody(S, position) ==
    addBody(S, NewBody(wheelMass, position, DefaultWheelQuat, 20, 1))

\* a point-to-point constraint with the two pivots taken for each other
PointToPointConstraint_SwappedPivots(bodyA, pivotA, bodyB, pivotB, maxF) ==
    [type |-> "pointToPoint", bodyA |-> bodyA, pivotA |-> pivotB,
     bodyB |-> bodyB, pivotB |-> pivotA, maxForce |-> maxF]

\* world.addConstraint of a CANNON.PointToPointConstraint
PointToPointConstraint(bodyA, pivotA, bodyB, pivotB, maxF) ==
    [type |-> "pointToPoint", bodyA |-> bodyA, pivotA |-> pivotA,
     bodyB |-> bodyB, pivotB |-> pivotB, maxForce |-> maxF]

\* a hinge that is made but never added to the world
addHingeConstraint_NotAdded(S, bodyA, bodyB, pivotA, pivotB, axisA, axisB) == S

\* PhysicsWorld.addHingeConstraint
addHingeConstraint(S, bodyA, bodyB, pivotA, pivotB, axisA, axisB) ==
    [S EXCEPT !.physicsWorld.constraints =
        Append(@, [type |-> "hinge", bodyA |-> bodyA, pivotA |-> pivotA,
                   bodyB |-> bodyB, pivotB |-> pivotB, axisA |-> axisA,
                   axisB |-> axisB, maxForce |-> hingeMaxForce])]

\* createSoftBody's springs with the spacing of the first two particles as the rest
\* length of every pair
RECURSIVE SpringsFrom_Spacing(_, _, _, _, _, _)
SpringsFrom_Spacing(body, ids, i, j, stiffness, damping) ==
    IF i > Len(ids) THEN << >>
    ELSE IF j > Len(ids)
    THEN SpringsFrom_Spacing(body, ids, i + 1, i + 2, stiffness, damping)
    ELSE << [bodyA      |-> ids[i],
             bodyB      |-> ids[j],
             restLength |-> distanceTo(body[ids[1]].position, body[ids[2]].position),
             stiffness  |-> stiffness,
             damping    |-> damping] >>
         \o SpringsFrom_Spacing(body, ids, i, j + 1, stiffness, damping)

\* the inner loop of createSoftBody begun at j = i: a spring from each particle to
\* itself as well
RECURSIVE SpringsFrom_SelfPairs(_, _, _, _, _, _)
SpringsFrom_SelfPairs(body, ids, i, j, stiffness, damping) ==
    IF i > Len(ids) THEN << >>
    ELSE IF j > Len(ids)
    THEN SpringsFrom_SelfPairs(body, ids, i + 1, i + 1, stiffness, damping)
    ELSE << [bodyA      |-> ids[i],
             bodyB      |-> ids[j],
             restLength |-> distanceTo(body[ids[i]].position, body[ids[j]].position),
             stiffness  |-> stiffness,
             damping    |-> damping] >>
         \o SpringsFrom_SelfPairs(body, ids, i, j + 1, stiffness, damping)

\* the springs createSoftBody makes for the particles ids[1..n]: one for each i < j,
\* in the order of the two loops
RECURSIVE SpringsFrom(_, _, _, _, _, _)
SpringsFrom(body, ids, i, j, stiffness, damping) ==
    IF i > Len(ids) THEN << >>
    ELSE IF j > Len(ids) THEN SpringsFrom(body, ids, i + 1, i + 2, stiffness, damping)
    ELSE << [bodyA      |-> ids[i],
             bodyB      |-> ids[j],
             restLength |-> distanceTo(body[ids[i]].position, body[ids[j]].position),
             stiffness  |-> stiffness,
             damping    |-> damping] >>
         \o SpringsFrom(body, ids, i, j + 1, stiffness, damping)

RECURSIVE AddBodies(_, _)
AddBodies(S, bs) ==
    IF bs = << >> THEN S ELSE AddBodies(addBody(S, Head(bs)), Tail(bs))

\* PhysicsWorld.createSoftBody: the particles, then the springs; the result
\* {bodies, constraints} is left in S.car.frontBumper
createSoftBody(S, positions, mass, stiffness, damping) ==
    LET n   == Len(positions)
        ids == [i \in 1..n |-> Len(S.body) + i]
        S1  == AddBodies(S, [i \in 1..n |->
                              NewBody(mass \div n, positions[i], IdentityQuat, 1, 1)])
    IN [S1 EXCEPT !.car.frontBumper =
           [bodies      |-> ids,
            constraints |-> SpringsFrom(S1.body, ids, 1, 2, stiffness, damping)]]

(***************************************************************************)
(* Construction of the Car (constructor and init).                         *)
(***************************************************************************)
\* Car.createWheels: this.wheelPositions
wheelPositions ==
    << Vec((length * 3) \div 10, wheelRadius - height \div 2, -(width \div 2)),
       Vec((length * 3) \div 10, wheelRadius - height \div 2, width \div 2),
       Vec(-((length * 3) \div 10), wheelRadius - height \div 2, -(width \div 2)),
       Vec(-((length * 3) \div 10), wheelRadius - height \div 2, width \div 2) >>

\* Car.createSoftBodyComponents: frontBumperPositions[i], i in 0..n-1, chassis-local
frontBumperPosition(i, n) ==
    LET frontBumperWidth == (width * 9) \div 10
    IN Vec(length \div 2 + Unit \div 10,
           -(height \div 3),
           (frontBumperWidth \div (n - 1)) * i - frontBumperWidth \div 2)

\* Car.createChassis
createChassis(S) ==
    LET startY == Max(S.car.position.y, height \div 2 + Unit \div 2)
        S1 == addBody(S, NewBody(chassisMass,
                                 Vec(S.car.position.x, startY, S.car.position.z),
                                 IdentityQuat, 50, 10))
    IN [S1 EXCEPT !.car.chassisBody = Len(S1.body),
                  !.mesh[Len(S1.body)] = Mesh(S1.body[Len(S1.body)].position, IdentityQuat)]

\* Car.createWheels
RECURSIVE createWheelsFrom(_, _)
createWheelsFrom(S, i) ==
    IF i > Len(wheelPositions) THEN S
    ELSE LET S1 == createWheelBody(S, VAdd(S.car.position, wheelPositions[i]))
         IN createWheelsFrom([S1 EXCEPT !.car.wheelBodies = Append(@, Len(S1.body))],
                             i + 1)

createWheels(S) == createWheelsFrom([S EXCEPT !.car.wheelBodies = << >>], 1)

\* Car.connectWheels: per wheel a point-to-point suspension and a hinge
RECURSIVE connectWheelsFrom(_, _)
connectWheelsFrom(S, i) ==
    IF i > Len(S.car.wheelBodies) THEN S
    ELSE LET wheelBody == S.car.wheelBodies[i]
             chassisConnectionPoint == wheelPositions[i]
             S1 == [S EXCEPT !.physicsWorld.constraints =
                       Append(@, PointToPointConstraint(S.car.chassisBody,
                                     chassisConnectionPoint, wheelBody, Zero3,
                                     suspensionMaxForce))]
             S2 == addHingeConstraint(S1, S.car.chassisBody, wheelBody,
                                      chassisConnectionPoint, Zero3,
                                      Vec(0, 0, 1), Vec(0, 1, 0))
         IN connectWheelsFrom(
                [S2 EXCEPT !.car.wheelConstraints =
                    Append(@, [suspension |-> Len(S1.physicsWorld.constraints),
                               hinge      |-> Len(S2.physicsWorld.constraints)])],
                i + 1)

connectWheels(S) == connectWheelsFrom([S EXCEPT !.car.wheelConstraints = << >>], 1)

\* Car.createSoftBodyComponents: the bumper particles, their springs and tethers
createSoftBodyComponents(S) ==
    LET S1 == createSoftBody(S,
                  [i \in 1..segments |->
                      VAdd(S.car.position, frontBumperPosition(i - 1, segments))],
                  bumperMass, bumperStiffness, bumperDamping)
    IN [S1 EXCEPT !.physicsWorld.constraints = @ \o
           [i \in 1..Len(S1.car.frontBumper.bodies) |->
               PointToPointConstraint(S1.car.chassisBody,
                   frontBumperPosition(i - 1, segments),
                   S1.car.frontBumper.bodies[i], Zero3, hingeMaxForce)],
                  !.mesh = [id \in DOMAIN S1.mesh |->
                               IF \E i \in DOMAIN S1.car.frontBumper.bodies :
                                      S1.car.frontBumper.bodies[i] = id
                               THEN Mesh(Zero3, IdentityQuat)
                               ELSE S1.mesh[id]]]

\* a reset of the wheels that moves each wheel by its offset from where it is
resetWheelPositions_Relative(S) ==
    [S EXCEPT !.body = [id \in DOMAIN S.body |->
        IF \E i \in DOMAIN S.car.wheelBodies : S.car.wheelBodies[i] = id
        THEN LET i == CHOOSE k \in DOMAIN S.car.wheelBodies : S.car.wheelBodies[k] = id
             IN [S.body[id] EXCEPT !.position = VAdd(@, wheelPositions[i])]
        ELSE S.body[id]]]

\* the reset of the older Car of car.js: each wheel is put at the chassis position
resetWheelPositions_NoOffset(S) ==
    [S EXCEPT !.body = [id \in DOMAIN S.body |->
        IF \E i \in DOMAIN S.car.wheelBodies : S.car.wheelBodies[i] = id
        THEN [S.body[id] EXCEPT !.position = S.body[S.car.chassisBody].position]
        ELSE S.body[id]]]

\* Car.resetWheelPositions
resetWheelPositions(S) ==
    [S EXCEPT !.body = [id \in DOMAIN S.body |->
        IF \E i \in DOMAIN S.car.wheelBodies : S.car.wheelBodies[i] = id
        THEN LET i == CHOOSE k \in DOMAIN S.car.wheelBodies : S.car.wheelBodies[k] = id
             IN [S.body[id] EXCEPT !.position =
                    VAdd(S.body[S.car.chassisBody].position, wheelPositions[i])]
        ELSE S.body[id]]]

NoControls ==
    [forward |-> FALSE, backward |-> FALSE, left |-> FALSE, right |-> FALSE,
     brake |-> FALSE]

\* new PhysicsWorld(); new Car(scene, physicsWorld, position): constructor and init
NewCar(position) ==
    LET S0 == [body         |-> << >>,
               mesh         |-> << >>,
               physicsWorld |-> [bodies |-> << >>, constraints |-> << >>],
               car          |-> [position         |-> position,
                                 controls         |-> NoControls,
                                 speed            |-> 0,
                                 steering         |-> 0,
                                 chassisBody      |-> 0,
                                 wheelBodies      |-> << >>,
                                 wheelConstraints |-> << >>,
                                 frontBumper      |-> [bodies |-> << >>,
                                                       constraints |-> << >>]],
               resetRan     |-> FALSE,
               log          |-> << >>,
               thrown       |-> FALSE,
               main         |-> [lastTime |-> Num(0), pending |-> FALSE]]
        S1 == createSoftBodyComponents(connectWheels(createWheels(createChassis(S0))))
    IN resetWheelPositions(
           [S1 EXCEPT !.body[S1.car.chassisBody].position = position])

(***************************************************************************)
(* Car.reset.                                                              *)
(***************************************************************************)
\* the wheel loop of reset() begun at the rear wheels, like that of updateDriving
IsWheel_RearOnly(S, id) == \E i \in 3..4 : S.car.wheelBodies[i] = id

IsWheel(S, id) == \E i \in DOMAIN S.car.wheelBodies : S.car.wheelBodies[i] = id

IsParticle(S, id) ==
    \E i \in DOMAIN S.car.frontBumper.bodies : S.car.frontBumper.bodies[i] = id

ParticleIndex(S, id) ==
    CHOOSE i \in DOMAIN S.car.frontBumper.bodies : S.car.frontBumper.bodies[i] = id

\* the reset of the older Car of car.js: the bumper spans the full width
resetBumperPosition_FullWidth(chassisPos, i, n) ==
    Vec(chassisPos.x + length \div 2 + Unit \div 10,
        chassisPos.y - height \div 3,
        chassisPos.z - width \div 2 + (width \div (n - 1)) * i)

\* the position reset() gives bumper particle i (0-based) of n, from the chassis position
resetBumperPosition(chassisPos, i, n) ==
    Vec(chassisPos.x + length \div 2 + Unit \div 10,
        chassisPos.y - height \div 3,
        chassisPos.z - ((width * 9) \div 10) \div 2
            + (((width * 9) \div 10) \div (n - 1)) * i)

reset(S) ==
    LET c  == S.car.chassisBody
        S1 == [S EXCEPT !.body[c].position =
                            Vec(S.car.position.x, S.car.position.y + height,
                                S.car.position.z),
                        !.body[c].quaternion = IdentityQuat,
                        !.body[c].velocity = Zero3,
                        !.body[c].angularVelocity = Zero3]
        S2 == resetWheelPositions(S1)
        n  == Len(S.car.frontBumper.bodies)
        S3 == [S2 EXCEPT !.body = [id \in DOMAIN S2.body |->
                 IF IsWheel(S2, id)
                 THEN [S2.body[id] EXCEPT !.quaternion = DefaultWheelQuat,
                                          !.velocity = Zero3,
                                          !.angularVelocity = Zero3,
                                          !.angularDamping = 10,
                                          !.linearDamping = 5]
                 ELSE IF IsParticle(S2, id)
                 THEN [S2.body[id] EXCEPT
                          !.position = resetBumperPosition(S2.body[c].position,
                                           ParticleIndex(S2, id) - 1, n),
                          !.velocity = Zero3,
                          !.angularVelocity = Zero3]
                 ELSE S2.body[id]]]
    IN [S3 EXCEPT !.car.controls = NoControls,
                  !.car.speed = 0,
                  !.car.steering = 0,
                  !.resetRan = TRUE]

(***************************************************************************)
(* Car.setupControls: the keydown and keyup handlers.                      *)
(***************************************************************************)
\* String.toLowerCase on the keys of the model
toLowerCase(k) ==
    CASE k = "W" -> "w"
      [] k = "A" -> "a"
      [] k = "S" -> "s"
      [] k = "D" -> "d"
      [] k = "R" -> "r"
      [] OTHER   -> k

\* a keydown handler that flips the flag of the key
onKeyDown_Toggle(S, key) ==
    LET k == toLowerCase(key)
    IN CASE k = "w" -> [S EXCEPT !.car.controls.forward = ~@]
         [] k = "s" -> [S EXCEPT !.car.controls.backward = ~@]
         [] k = "a" -> [S EXCEPT !.car.controls.left = ~@]
         [] k = "d" -> [S EXCEPT !.car.controls.right = ~@]
         [] k = " " -> [S EXCEPT !.car.controls.brake = ~@]
         [] k = "r" -> reset(S)
         [] OTHER   -> S

\* a keydown handler without the case of r
onKeyDown_NoReset(S, key) ==
    LET k == toLowerCase(key)
    IN CASE k = "w" -> [S EXCEPT !.car.controls.forward = TRUE]
         [] k = "s" -> [S EXCEPT !.car.controls.backward = TRUE]
         [] k = "a" -> [S EXCEPT !.car.controls.left = TRUE]
         [] k = "d" -> [S EXCEPT !.car.controls.right = TRUE]
         [] k = " " -> [S EXCEPT !.car.controls.brake = TRUE]
         [] OTHER   -> S

onKeyDown(S, key) ==
    LET k == toLowerCase(key)
    IN CASE k = "w" -> [S EXCEPT !.car.controls.forward = TRUE]
         [] k = "s" -> [S EXCEPT !.car.controls.backward = TRUE]
         [] k = "a" -> [S EXCEPT !.car.controls.left = TRUE]
         [] k = "d" -> [S EXCEPT !.car.controls.right = TRUE]
         [] k = " " -> [S EXCEPT !.car.controls.brake = TRUE]
         [] k = "r" -> reset(S)
         [] OTHER   -> S

onKeyUp(S, key) ==
    LET k == toLowerCase(key)
    IN CASE k = "w" -> [S EXCEPT !.car.controls.forward = FALSE]
         [] k = "s" -> [S EXCEPT !.car.controls.backward = FALSE]
         [] k = "a" -> [S EXCEPT !.car.controls.left = FALSE]
         [] k = "d" -> [S EXCEPT !.car.controls.right = FALSE]
         [] k = " " -> [S EXCEPT !.car.controls.brake = FALSE]
         [] OTHER   -> S

\* a click handler that builds the bumper anew before the reset
onResetClick_Rebuild(S) == reset(createSoftBodyComponents(S))

\* setupUI: the click handler of the Reset Car button
onResetClick(S) == reset(S)

(***************************************************************************)
(* Car.update and its parts.                                               *)
(***************************************************************************)
\* updateSteering's angle without the clamp at maxSteeringAngle on the left
nextSteering_Unclamped(steering, controls, deltaTime) ==
    IF controls.left
    THEN steering + steeringSpeed * deltaTime
    ELSE IF controls.right
    THEN Max(steering - steeringSpeed * deltaTime, -maxSteeringAngle)
    ELSE IF steering > 0
    THEN Max(steering - steeringReturnSpeed * deltaTime, 0)
    ELSE IF steering < 0
    THEN Min(steering + steeringReturnSpeed * deltaTime, 0)
    ELSE steering

\* updateSteering's angle with a return to centre that is not stopped at 0
nextSteering_Overshoot(steering, controls, deltaTime) ==
    IF controls.left
    THEN Min(steering + steeringSpeed * deltaTime, maxSteeringAngle)
    ELSE IF controls.right
    THEN Max(steering - steeringSpeed * deltaTime, -maxSteeringAngle)
    ELSE IF steering > 0
    THEN steering - steeringReturnSpeed * deltaTime
    ELSE IF steering < 0
    THEN steering + steeringReturnSpeed * deltaTime
    ELSE steering

\* the steering angle updateSteering computes
\* updateSteering with the test of right before the test of left
nextSteering_RightFirst(steering, controls, deltaTime) ==
    IF controls.right
    THEN Max(steering - steeringSpeed * deltaTime, -maxSteeringAngle)
    ELSE IF controls.left
    THEN Min(steering + steeringSpeed * deltaTime, maxSteeringAngle)
    ELSE IF steering > 0
    THEN Max(steering - steeringReturnSpeed * deltaTime, 0)
    ELSE IF steering < 0
    THEN Min(steering + steeringReturnSpeed * deltaTime, 0)
    ELSE steering

\* a steering that is back at the centre as soon as neither key is held
nextSteering_Snap(steering, controls, deltaTime) ==
    IF controls.left
    THEN Min(steering + steeringSpeed * deltaTime, maxSteeringAngle)
    ELSE IF controls.right
    THEN Max(steering - steeringSpeed * deltaTime, -maxSteeringAngle)
    ELSE 0

nextSteering(steering, controls, deltaTime) ==
    IF controls.left
    THEN Min(steering + steeringSpeed * deltaTime, maxSteeringAngle)
    ELSE IF controls.right
    THEN Max(steering - steeringSpeed * deltaTime, -maxSteeringAngle)
    ELSE IF steering > 0
    THEN Max(steering - steeringReturnSpeed * deltaTime, 0)
    ELSE IF steering < 0
    THEN Min(steering + steeringReturnSpeed * deltaTime, 0)
    ELSE steering

\* the two rotations of a front wheel combined the other way round
steeredQuat_DefaultFirst(steering) ==
    mult(setFromAxisAngle("z", Angle(0, 1)), setFromAxisAngle("y", Angle(steering, 0)))

\* the orientation updateSteering gives a front wheel
steeredQuat(steering) ==
    mult(setFromAxisAngle("y", Angle(steering, 0)), setFromAxisAngle("z", Angle(0, 1)))

updateSteering(S, deltaTime) ==
    LET st == nextSteering(S.car.steering, S.car.controls, deltaTime)
    IN [S EXCEPT !.car.steering = st,
                 !.body = [id \in DOMAIN S.body |->
                     IF \E i \in 1..2 : S.car.wheelBodies[i] = id
                     THEN [S.body[id] EXCEPT !.quaternion = steeredQuat(st)]
                     ELSE S.body[id]]]

\* an engine that is cut while the brake is held
engineForceOf_BrakeCuts(controls) ==
    IF controls.brake THEN 0
    ELSE IF controls.forward THEN maxForce
    ELSE IF controls.backward THEN -(maxForce \div 2)
    ELSE 0

\* the engineForce of the older Car of car.js: full force in reverse
engineForceOf_FullReverse(controls) ==
    IF controls.forward THEN maxForce
    ELSE IF controls.backward THEN -maxForce
    ELSE 0

\* the engineForce updateDriving computes from the controls
engineForceOf(controls) ==
    IF controls.forward THEN maxForce
    ELSE IF controls.backward THEN (-maxForce * 5) \div 10
    ELSE 0

\* updateDriving with its loop over all four wheels
updateDriving_AllWheels(S, deltaTime) ==
    LET engineForce == engineForceOf(S.car.controls)
        S1 == [S EXCEPT !.body = [id \in DOMAIN S.body |->
                 IF \E i \in 1..4 : S.car.wheelBodies[i] = id
                 THEN LET wheelBody == S.body[id]
                          forced == IF engineForce # 0
                                    THEN applyForce(wheelBody,
                                             [dir |-> vmult(wheelBody.quaternion, Vec(1, 0, 0)),
                                              scale |-> engineForce],
                                             wheelBody.position)
                                    ELSE wheelBody
                      IN IF S.car.controls.brake
                         THEN [forced EXCEPT !.angularDamping = 95,
                                             !.linearDamping = 90]
                         ELSE [forced EXCEPT !.angularDamping = 10,
                                             !.linearDamping = 5]
                 ELSE S.body[id]]]
    IN [S1 EXCEPT !.car.speed = VLength(S.body[S.car.chassisBody].velocity)]

\* updateDriving raising the damping under the brake and never lowering it again
updateDriving_StickyBrake(S, deltaTime) ==
    LET engineForce == engineForceOf(S.car.controls)
        S1 == [S EXCEPT !.body = [id \in DOMAIN S.body |->
                 IF \E i \in 3..4 : S.car.wheelBodies[i] = id
                 THEN LET wheelBody == S.body[id]
                          forced == IF engineForce # 0
                                    THEN applyForce(wheelBody,
                                             [dir |-> vmult(wheelBody.quaternion, Vec(1, 0, 0)),
                                              scale |-> engineForce],
                                             wheelBody.position)
                                    ELSE wheelBody
                      IN IF S.car.controls.brake
                         THEN [forced EXCEPT !.angularDamping = 95,
                                             !.linearDamping = 90]
                         ELSE forced
                 ELSE S.body[id]]]
    IN [S1 EXCEPT !.car.speed = VLength(S.body[S.car.chassisBody].velocity)]

updateDriving(S, deltaTime) ==
    LET engineForce == engineForceOf(S.car.controls)
        S1 == [S EXCEPT !.body = [id \in DOMAIN S.body |->
                 IF \E i \in 3..4 : S.car.wheelBodies[i] = id
                 THEN LET wheelBody == S.body[id]
                          worldForceDir == vmult(wheelBody.quaternion, Vec(1, 0, 0))
                          forced == IF engineForce # 0
                                    THEN applyForce(wheelBody,
                                             [dir |-> worldForceDir,
                                              scale |-> engineForce],
                                             wheelBody.position)
                                    ELSE wheelBody
                      IN IF S.car.controls.brake
                         THEN [forced EXCEPT !.angularDamping = 95,
                                             !.linearDamping = 90]
                         ELSE [forced EXCEPT !.angularDamping = 10,
                                             !.linearDamping = 5]
                 ELSE S.body[id]]]
    IN [S1 EXCEPT !.car.speed = VLength(S.body[S.car.chassisBody].velocity)]

\* an update that lets go of the brake once it has been applied
Car_update_ReleasesBrake(S, deltaTime) ==
    IF isNaN(deltaTime) \/ deltaTime.v <= 0
    THEN Called(S, "Car.update", deltaTime)
    ELSE LET S0 == Called(S, "Car.update", deltaTime)
             S1 == updateDriving(updateSteering(S0, deltaTime.v), deltaTime.v)
             S2 == [S1 EXCEPT !.car.controls.brake = FALSE]
         IN IF S2.body[S2.car.chassisBody].position.y < SanityFloor
            THEN reset(S2)
            ELSE S2

\* Car.update without the check of the delta time at its beginning
Car_update_NoGuard(S, deltaTime) ==
    LET S0 == Called(S, "Car.update", deltaTime)
        S1 == updateDriving(updateSteering(S0, deltaTime.v), deltaTime.v)
    IN IF S1.body[S1.car.chassisBody].position.y < SanityFloor
       THEN reset(S1)
       ELSE S1

\* Car.update without the check of the chassis height at its end
Car_update_NoRecovery(S, deltaTime) ==
    IF isNaN(deltaTime) \/ deltaTime.v <= 0
    THEN Called(S, "Car.update", deltaTime)
    ELSE updateDriving(updateSteering(Called(S, "Car.update", deltaTime), deltaTime.v),
                       deltaTime.v)

\* Car.update
Car_update(S, deltaTime) ==
    IF isNaN(deltaTime) \/ deltaTime.v <= 0
    THEN Called(S, "Car.update", deltaTime)
    ELSE LET S0 == Called(S, "Car.update", deltaTime)
             S1 == updateDriving(updateSteering(S0, deltaTime.v), deltaTime.v)
         IN IF S1.body[S1.car.chassisBody].position.y < SanityFloor
            THEN reset(S1)
            ELSE S1

(***************************************************************************)
(* The engine step, world.step(dt): external code.  Its outcome is one of  *)
(*   rest   nothing moves                                                  *)
(*   crash  the whole rig moves by DriveStep, its wheels turn, and the     *)
(*          bumper particles are pushed in, particle i by i * Dent         *)
(*   fall   the whole rig drops by FallDrop, to below the sanity floor     *)
(*   throw  the step throws before it changed anything                     *)
(* A step that returns has cleared the forces applied since the last one.  *)
(***************************************************************************)
StepOutcomes == {"rest", "crash", "fall", "throw"}

DriveStep == Vec(Unit, 0, 0)

FallDrop == Vec(0, -17 * Unit, 0)

Dent == Unit \div 20

MovingVelocity == Vec(4, 0, 3)

\* the outcomes the model lets the engine have in S (this bounds the model)
OutcomeAllowed(S, outcome) ==
    CASE outcome = "crash" ->
             S.body[S.car.chassisBody].position.x - S.car.position.x < MaxDrive * Unit
      [] outcome = "fall"  -> S.body[S.car.chassisBody].position.y >= SanityFloor
      [] outcome = "throw" ->
             \A id \in DOMAIN S.body : Len(S.body[id].force) < MaxPending
      [] OTHER -> TRUE

Moved(b, by, turn) ==
    [b EXCEPT !.position = VAdd(@, by),
              !.velocity = MovingVelocity,
              !.angularVelocity = Vec(0, 0, 1),
              !.quaternion = mult(@, turn),
              !.force = << >>]

world_step(S, dt, outcome) ==
    LET called    == [S EXCEPT !.log = Append(@, [call |-> "world.step", deltaTime |-> Num(dt)])]
        wheels    == {S.car.wheelBodies[i] : i \in DOMAIN S.car.wheelBodies}
        particles == {S.car.frontBumper.bodies[i] : i \in DOMAIN S.car.frontBumper.bodies}
        quarter   == setFromAxisAngle("y", Angle(0, 1))
    IN IF outcome = "throw" THEN [called EXCEPT !.thrown = TRUE]
       ELSE [called EXCEPT !.body = [id \in DOMAIN S.body |->
        LET b == S.body[id]
        IN CASE outcome = "crash" /\ id = S.car.chassisBody ->
                    Moved(b, DriveStep, IdentityQuat)
             [] outcome = "crash" /\ id \in wheels ->
                    Moved(b, DriveStep, quarter)
             [] outcome = "crash" /\ id \in particles ->
                    Moved(b, VAdd(DriveStep, Vec(-(ParticleIndex(S, id) * Dent), 0, 0)),
                          IdentityQuat)
             [] outcome = "fall" /\ id = S.car.chassisBody ->
                    Moved(b, FallDrop, IdentityQuat)
             [] outcome = "fall" /\ id \in wheels ->
                    Moved(b, FallDrop, quarter)
             [] outcome = "fall" /\ id \in particles ->
                    Moved(b, FallDrop, IdentityQuat)
             [] OTHER -> [b EXCEPT !.force = << >>]]]

\* PhysicsWorld.update: the loop that copies each tracked body into its mesh
updateMeshes(S) ==
    [S EXCEPT !.mesh = [id \in DOMAIN S.mesh |->
        IF S.mesh[id].tracked
        THEN Mesh(S.body[id].position, S.body[id].quaternion)
        ELSE S.mesh[id]]]

\* PhysicsWorld.update stepping with the delta time it was given, whatever it is
PhysicsWorld_update_NoDefault(S, deltaTime, outcome) ==
    LET S1 == world_step(Called(S, "PhysicsWorld.update", deltaTime), deltaTime.v, outcome)
    IN IF S1.thrown
       THEN [Called(S1, "console.error", deltaTime) EXCEPT !.thrown = FALSE]
       ELSE updateMeshes(S1)

\* PhysicsWorld.update without its try and catch
PhysicsWorld_update_NoCatch(S, deltaTime, outcome) ==
    LET dt == IF isNaN(deltaTime) \/ deltaTime.v <= 0 THEN DefaultStep ELSE deltaTime.v
        S1 == world_step(Called(S, "PhysicsWorld.update", deltaTime), dt, outcome)
    IN IF S1.thrown THEN S1 ELSE updateMeshes(S1)

\* PhysicsWorld.update
PhysicsWorld_update(S, deltaTime, outcome) ==
    LET dt == IF isNaN(deltaTime) \/ deltaTime.v <= 0 THEN DefaultStep ELSE deltaTime.v
        S1 == world_step(Called(S, "PhysicsWorld.update", deltaTime), dt, outcome)
    IN IF S1.thrown
       THEN [Called(S1, "console.error", deltaTime) EXCEPT !.thrown = FALSE]
       ELSE updateMeshes(S1)

\* the difference of two numbers, and Math.min: NaN if either is
NumSub(a, b) == IF isNaN(a) \/ isNaN(b) THEN NaN ELSE Num(a.v - b.v)

\* a minimum that lets its first argument through
MathMin_First(a, b) == a

MathMin(a, b) == IF isNaN(a) \/ isNaN(b) THEN NaN ELSE Num(Min(a.v, b.v))

\* frame with the car updated before the world is stepped
frame_CarFirst(S, deltaTime, outcome) ==
    LET S1 == Car_update(S, deltaTime)
    IN IF S1.thrown THEN S1 ELSE PhysicsWorld_update(S1, deltaTime, outcome)

\* animate(), after it has computed the delta time: the physics step, then the car
\* unless an exception is on its way to animate's catch
frame(S, deltaTime, outcome) ==
    LET S1 == PhysicsWorld_update(S, deltaTime, outcome)
    IN IF S1.thrown THEN S1 ELSE Car_update(S1, deltaTime)

\* animate(time).  A timestamp is in thirds of a ms and a delta time in thirds of
\* a thousandth of a second, so (time - lastTime) / 1000 is their difference.
animate(S, time, outcome) ==
    LET S0 == Called([S EXCEPT !.main.pending = TRUE], "requestAnimationFrame", time)
        deltaTime == MathMin(NumSub(time, S.main.lastTime), Num(MaxDeltaTime))
        S1 == [S0 EXCEPT !.main.lastTime = time]
        S2 == frame(S1, deltaTime, outcome)
        S3 == IF S2.thrown
              THEN S2
              ELSE Called(Called(S2, "GridMap.update", deltaTime),
                          "renderer.render", deltaTime)
    IN IF S3.thrown
       THEN [Called(S3, "console.error", deltaTime) EXCEPT !.thrown = FALSE]
       ELSE S3

(***************************************************************************)
(* The state machine.                                                      *)
(***************************************************************************)
VARIABLES body, physicsWorld, car, resetRan, relax, main, trace, mesh

vars == << body, physicsWorld, car, resetRan, relax, main, trace, mesh >>

\* the state an operation starts in
State ==
    [body |-> body, physicsWorld |-> physicsWorld, car |-> car, resetRan |-> FALSE,
     log |-> << >>, thrown |-> FALSE, main |-> main, mesh |-> mesh]

\* the state an operation leaves
Becomes(S) ==
    /\ car' = S.car
    /\ body' = S.body
    /\ physicsWorld' = S.physicsWorld
    /\ resetRan' = S.resetRan

\* the spawn position: initCar's carStartPosition (0,5,0)
SpawnPositions == {Vec(0, 5 * Unit, 0)}

\* the keys of the key events: the six keys of the controls, one of them also in
\* upper case, and one key outside them
Keys == {"w", "a", "s", "d", " ", "r", "W", "x"}

\* the delta times of a frame: NaN, negative, zero and 0.1 s
DeltaTimes == {NaN, Num(-300), Num(0), Num(300)}

(***************************************************************************)
(* History of the return to centre: while the updates run with neither     *)
(* left nor right held, relax.left is how much of the angle the run began  *)
(* with is still to be covered at steeringReturnSpeed, and relax.sign the  *)
(* sign of that angle.                                                     *)
(***************************************************************************)
Sign(n) == IF n > 0 THEN 1 ELSE IF n < 0 THEN -1 ELSE 0

Abs(n) == IF n < 0 THEN -n ELSE n

relaxAfter(r, c, deltaTime) ==
    IF isNaN(deltaTime) \/ deltaTime.v <= 0 THEN r
    ELSE IF c.controls.left \/ c.controls.right THEN [active |-> FALSE, sign |-> 0, left |-> 0]
    ELSE IF r.active
    THEN [r EXCEPT !.left = Max(@ - steeringReturnSpeed * deltaTime.v, 0)]
    ELSE [active |-> TRUE,
          sign   |-> Sign(c.steering),
          left   |-> Max(Abs(c.steering) - steeringReturnSpeed * deltaTime.v, 0)]

\* the state after new PhysicsWorld() and new Car(...) at one of the positions
InitAt(positions) ==
    /\ \E position \in positions :
          LET S == NewCar(position)
          IN /\ body = S.body
             /\ physicsWorld = S.physicsWorld
             /\ car = S.car
             /\ resetRan = S.resetRan
             /\ main = S.main
             /\ trace = S.log
             /\ mesh = S.mesh
    /\ relax = [active |-> FALSE, sign |-> 0, left |-> 0]

Init == InitAt(SpawnPositions)

Held(controls) ==
    Cardinality({f \in DOMAIN controls : controls[f]})

KeyDown(key) ==
    /\ Held(onKeyDown(State, key).car.controls) <= MaxHeld
    /\ Becomes(onKeyDown(State, key))
    /\ UNCHANGED << relax, main, trace, mesh >>

KeyUp(key) ==
    /\ Becomes(onKeyUp(State, key))
    /\ UNCHANGED << relax, main, trace, mesh >>

ResetClick ==
    /\ Becomes(onResetClick(State))
    /\ UNCHANGED << relax, main, trace, mesh >>

\* a frame of animate()
Frame(deltaTime, outcome) ==
    /\ OutcomeAllowed(State, outcome)
    /\ Becomes(frame(State, deltaTime, outcome))
    /\ relax' = relaxAfter(relax, car, deltaTime)
    /\ UNCHANGED << main, trace, mesh >>

Next ==
    \/ \E key \in Keys : KeyDown(key)
    \/ \E key \in Keys : KeyUp(key)
    \/ ResetClick
    \/ \E deltaTime \in DeltaTimes, outcome \in StepOutcomes : Frame(deltaTime, outcome)

Spec == Init /\ [][Next]_vars

(***************************************************************************)
(* The same program on level ground: its frames are those in which the     *)
(* engine leaves the car where it is, drops it or throws, and the history  *)
(* of the return to centre is not kept.                                    *)
(***************************************************************************)
GroundOutcomes == {"rest", "fall", "throw"}

GroundDeltaTimes == {NaN, Num(300)}

GroundFrame(deltaTime, outcome) ==
    /\ OutcomeAllowed(State, outcome)
    /\ Becomes(frame(State, deltaTime, outcome))
    /\ UNCHANGED << relax, main, trace, mesh >>

NextGround ==
    \/ \E key \in Keys : KeyDown(key)
    \/ \E key \in Keys : KeyUp(key)
    \/ ResetClick
    \/ \E deltaTime \in GroundDeltaTimes, outcome \in GroundOutcomes :
           GroundFrame(deltaTime, outcome)

SpecGround == Init /\ [][NextGround]_vars

(***************************************************************************)
(* The animation loop with its clock: init() calls animate(0), and every   *)
(* later frame is a callback of requestAnimationFrame with a timestamp.    *)
(* The timestamps are any sequence: they may stand still, go back or be    *)
(* NaN.  The car is driven with the keys of LoopKeys, and trace keeps the  *)
(* calls of the last frame.  The meshes of the tracked bodies are followed *)
(* in this specification; the state at the end of a frame is the state the *)
(* frame renders.                                                          *)
(***************************************************************************)
LoopKeys == {"a", "w"}

\* what a timestamp may differ by from the one before: -0.05, 0, 0.05 and 0.15 s
TimeSteps == {-Tick, 0, Tick, 3 * Tick}

Timestamps ==
    IF ~main.pending THEN {Num(0)}
    ELSE IF isNaN(main.lastTime) THEN {NaN}
    ELSE {NaN} \cup {Num(main.lastTime.v + d) : d \in TimeSteps}

\* the frames the model takes: the clock within its bound, the engine step with
\* an outcome the model lets it have
CanAnimate(time, outcome) ==
    /\ ~isNaN(time) => time.v \in 0..(MaxTicks * Tick)
    /\ OutcomeAllowed(State, outcome)

Animate(time, outcome) ==
    /\ CanAnimate(time, outcome)
    /\ LET S == animate(State, time, outcome)
       IN /\ Becomes(S)
          /\ main' = S.main
          /\ trace' = S.log
          /\ mesh' = S.mesh
    /\ UNCHANGED relax

NextLoop ==
    \/ \E key \in LoopKeys : main.pending /\ KeyDown(key)
    \/ \E key \in LoopKeys : main.pending /\ KeyUp(key)
    \/ \E time \in Timestamps, outcome \in GroundOutcomes : Animate(time, outcome)

SpecLoop == Init /\ [][NextLoop]_vars

(***************************************************************************)
(* The animation loop around a car that was built without a position, at   *)
(* the default of the constructor, position = { x: 0, y: 1, z: 0 }.        *)
(***************************************************************************)
DefaultPositions == {Vec(0, Unit, 0)}

InitDefault == InitAt(DefaultPositions)

SpecDefault == InitDefault /\ [][NextLoop]_vars

(***************************************************************************)
(* Properties.                                                             *)
(***************************************************************************)
\* a delta time Car.update acts on
ValidDelta(deltaTime) == ~isNaN(deltaTime) /\ deltaTime.v > 0

\* C1: in every reachable state the steering angle lies in
\* [-maxSteeringAngle, +maxSteeringAngle] = [-0.5, 0.5] rad (1500 thirds of a mrad).
C1_SteeringWithinLimits ==
    /\ maxSteeringAngle = 1500
    /\ -maxSteeringAngle <= car.steering
    /\ car.steering <= maxSteeringAngle

\* an update with left held has run the angle into the clamp
C1_Witness ==
    /\ car.controls.left
    /\ car.steering = maxSteeringAngle

\* C2: over a run of updates with neither left nor right held, the angle keeps the
\* sign it began with or is 0, is never further from 0 than what is left of the
\* starting angle at steeringReturnSpeed, and so is exactly 0, and stays 0, once the
\* delta times of the run sum to |angle| / 3.0 or more.
C2_ReturnsToCentre ==
    relax.active =>
        /\ car.steering * relax.sign >= 0
        /\ Abs(car.steering) <= relax.left
        /\ (relax.left = 0 => car.steering = 0)

\* a run that began at a negative angle has used up its time and is at the centre
C2_Witness ==
    /\ relax.active
    /\ relax.sign = -1
    /\ relax.left = 0
    /\ car.steering = 0
    /\ ~resetRan

\* the forces an update applied to body id in a frame with this step outcome
AppliedIn(id, outcome) ==
    LET kept == IF outcome = "throw" THEN Len(body[id].force) ELSE 0
    IN [k \in 1..(Len(body'[id].force) - kept) |-> body'[id].force[kept + k].force.scale]

\* C3: an update that acts computes the engine force 0 with neither forward nor
\* backward held, +500 with forward held (whatever backward is), and -250 with
\* backward held and forward not; it is the force applied at the rear wheels.
C3_EngineForce ==
    [][\A deltaTime \in GroundDeltaTimes, outcome \in GroundOutcomes :
          ValidDelta(deltaTime) /\ GroundFrame(deltaTime, outcome) =>
              \A i \in 3..4 :
                  AppliedIn(car.wheelBodies[i], outcome) =
                      IF car.controls.forward THEN << 500 >>
                      ELSE IF car.controls.backward THEN << -250 >>
                      ELSE << >>]_vars

\* a rear wheel carries the reverse force of an update
C3_Witness ==
    \E i \in 3..4 :
        LET f == body[car.wheelBodies[i]].force
        IN f # << >> /\ f[Len(f)].force.scale = -250

\* C4: when reset() has run, wheel i is at the chassis position the reset set plus
\* wheelPositions[i], for each of the four wheels.
C4_WheelsAtOffsets ==
    resetRan =>
        /\ Len(car.wheelBodies) = 4
        /\ \A i \in DOMAIN car.wheelBodies :
               body[car.wheelBodies[i]].position =
                   VAdd(body[car.chassisBody].position, wheelPositions[i])

\* a reset has put the front left wheel 2.835 m ahead of, 0.63 m below and 0.9 m to
\* the left of the chassis it raised to y = 5 + 1.4 m
C4_Witness ==
    /\ resetRan
    /\ body[car.chassisBody].position = Vec(0, 13440, 0)
    /\ body[car.wheelBodies[1]].position = Vec(2835, 12810, -1890)

\* C5: when reset() has run, bumper particle i is at the chassis position plus the
\* offset it was created with (the pivot of its tether on the chassis), and its
\* linear and angular velocity are zero.
C5_BumperAtRest ==
    resetRan =>
        /\ Len(car.frontBumper.bodies) = segments
        /\ \A i \in DOMAIN car.frontBumper.bodies :
               LET b == body[car.frontBumper.bodies[i]]
               IN /\ b.position = VAdd(body[car.chassisBody].position,
                                       frontBumperPosition(i - 1, segments))
                  /\ b.velocity = Zero3
                  /\ b.angularVelocity = Zero3

\* a reset has put the last particle at the right end of the bumper, at rest
C5_Witness ==
    /\ resetRan
    /\ body[car.frontBumper.bodies[segments]].position = Vec(4935, 12460, 1701)
    /\ body[car.frontBumper.bodies[segments]].velocity = Zero3

\* where createSoftBodyComponents put particle i (1-based) when it made the bumper
CreatedAt(i) == VAdd(car.position, frontBumperPosition(i - 1, segments))

\* C6: in every reachable state the rest length of the spring of particles i < j is
\* the distance between the positions the two were created at.
C6_RestLengths ==
    /\ car.frontBumper.constraints # << >>
    /\ \A k \in DOMAIN car.frontBumper.constraints :
           LET spring == car.frontBumper.constraints[k]
               i == ParticleIndex(State, spring.bodyA)
               j == ParticleIndex(State, spring.bodyB)
           IN /\ i < j
              /\ spring.restLength = distanceTo(CreatedAt(i), CreatedAt(j))

\* the particles of a spring are no longer at its rest length from each other
C6_Witness ==
    \E k \in DOMAIN car.frontBumper.constraints :
        LET spring == car.frontBumper.constraints[k]
        IN distanceTo(body[spring.bodyA].position, body[spring.bodyB].position)
               # spring.restLength

\* the control flag of a key: w forward, s backward, a left, d right, space brake
FlagOf(key) ==
    CASE key \in {"w", "W"} -> "forward"
      [] key = "s" -> "backward"
      [] key = "a" -> "left"
      [] key = "d" -> "right"
      [] key = " " -> "brake"
      [] OTHER     -> "none"

\* C7: a keydown of w, s, a, d or space leaves the flag of the key true and a keyup
\* leaves it false, whatever it was, and no other flag changes; a key other than
\* these and r changes no flag.
C7_KeysSetTheirFlag ==
    [][\A key \in Keys :
          /\ KeyDown(key) /\ FlagOf(key) # "none" =>
                 car'.controls = [car.controls EXCEPT ![FlagOf(key)] = TRUE]
          /\ KeyUp(key) /\ FlagOf(key) # "none" =>
                 car'.controls = [car.controls EXCEPT ![FlagOf(key)] = FALSE]
          /\ (KeyDown(key) \/ KeyUp(key)) /\ FlagOf(key) = "none" /\ key # "r" =>
                 car'.controls = car.controls]_vars

\* forward and brake are held together: two keydowns have each set their own flag
C7_Witness ==
    /\ car.controls.forward
    /\ car.controls.brake
    /\ ~car.controls.backward /\ ~car.controls.left /\ ~car.controls.right

\* a key event of one of the five control keys
ControlKeyEvent ==
    \E key \in Keys : FlagOf(key) # "none" /\ (KeyDown(key) \/ KeyUp(key))

\* C8, as stated: only the key events of the control keys change a control flag;
\* no frame (update, physics step, automatic recovery) and no reset() changes one.
C8_OnlyKeyEvents ==
    [][car'.controls # car.controls => ControlKeyEvent]_vars

\* C8, as the code has it: a control flag changes only in a key event of a control
\* key or in an operation that runs reset(), which leaves all five flags false; a
\* frame that does not run reset() changes no flag.
C8_KeyEventsOrReset ==
    [][car'.controls # car.controls =>
          \/ ControlKeyEvent
          \/ resetRan' /\ car'.controls = NoControls]_vars

\* a frame has driven the rear wheels forward and the flags it read are still held
C8_Witness ==
    /\ ~resetRan
    /\ car.controls.forward
    /\ \E i \in 3..4 :
           LET f == body[car.wheelBodies[i]].force
           IN f # << >> /\ f[Len(f)].force.scale = maxForce

\* the state reset() leaves the car in, as far as the position it was built with
\* decides it
InResetPose ==
    /\ body[car.chassisBody].position =
           Vec(car.position.x, car.position.y + height, car.position.z)
    /\ body[car.chassisBody].quaternion = IdentityQuat
    /\ body[car.chassisBody].velocity = Zero3
    /\ car.steering = 0
    /\ car.speed = 0

\* C9: a keydown of r runs reset() in the handler, whatever the flags: the step
\* ends in the reset state; it is the step a click on the Reset Car button takes,
\* which runs the same reset(); a keyup of r changes nothing.
C9_ResetKeyAndButton ==
    [][/\ \A key \in Keys :
             toLowerCase(key) = "r" /\ KeyDown(key) =>
                 resetRan' /\ InResetPose' /\ ResetClick
       /\ ResetClick => resetRan' /\ InResetPose'
       /\ KeyUp("r") => UNCHANGED << body, physicsWorld, car >> /\ ~resetRan']_vars

\* a reset has brought the car back from a steering angle other than 0 to the
\* reset state
C9_Witness ==
    /\ resetRan
    /\ InResetPose
    /\ \E i \in 1..2 : body[car.wheelBodies[i]].quaternion = DefaultWheelQuat

\* C10: the construction leaves 13 bodies and 16 constraints in the world and 28
\* springs in the bumper, and no step after it (key event, reset, frame) adds,
\* removes or makes anew a body, a constraint or a spring: the world's lists and
\* the car's references to its chassis, wheels, wheel constraints, particles and
\* springs are the same after the step as before it.
C10_SameObjects ==
    /\ Len(body) = 13
    /\ Len(physicsWorld.bodies) = 13
    /\ Len(physicsWorld.constraints) = 16
    /\ Len(car.frontBumper.constraints) = 28
    /\ [][/\ DOMAIN body' = DOMAIN body
          /\ \A id \in DOMAIN body : body'[id].mass = body[id].mass
          /\ physicsWorld' = physicsWorld
          /\ car'.chassisBody = car.chassisBody
          /\ car'.wheelBodies = car.wheelBodies
          /\ car'.wheelConstraints = car.wheelConstraints
          /\ car'.frontBumper = car.frontBumper]_vars

\* the car has been driven into something and reset since it was built
C10_Witness ==
    /\ resetRan
    /\ relax.active
    /\ Len(physicsWorld.bodies) = 13

\* every point-to-point constraint holds in position, the chassis being upright
PointToPointSatisfied ==
    /\ body[car.chassisBody].quaternion = IdentityQuat
    /\ \A k \in DOMAIN physicsWorld.constraints :
           LET c == physicsWorld.constraints[k]
           IN c.type = "pointToPoint" =>
                  VAdd(body[c.bodyA].position, c.pivotA)
                      = VAdd(body[c.bodyB].position, c.pivotB)

\* C11: right after the construction and after every reset() each wheel centre is
\* at its suspension point, chassis position + pivot on the chassis, and each
\* bumper particle at its tether point, for the 4 + 8 point-to-point constraints;
\* and no step changes a pivot of a constraint.
C11_AttachmentsSatisfied ==
    /\ PointToPointSatisfied
    /\ Cardinality({k \in DOMAIN physicsWorld.constraints :
                        physicsWorld.constraints[k].type = "pointToPoint"}) = 12
    /\ [][/\ resetRan' => PointToPointSatisfied'
          /\ \A k \in DOMAIN physicsWorld.constraints :
                 /\ physicsWorld'.constraints[k].pivotA
                        = physicsWorld.constraints[k].pivotA
                 /\ physicsWorld'.constraints[k].pivotB
                        = physicsWorld.constraints[k].pivotB]_vars

\* a reset has raised the chassis and every attachment holds again
C11_Witness ==
    /\ resetRan
    /\ PointToPointSatisfied
    /\ body[car.chassisBody].position.y = car.position.y + height

CallsIn(calls, name) == SelectSeq(calls, LAMBDA e : e.call = name)

\* the delta time of a frame with the timestamp time, in thirds of a millisecond
CappedDelta(time) ==
    IF isNaN(time) \/ isNaN(main.lastTime) THEN NaN
    ELSE IF time.v - main.lastTime.v < 300 THEN Num(time.v - main.lastTime.v)
    ELSE Num(300)

\* C13 as stated: each frame hands min((time - lastTime)/1000, 0.1) to
\* PhysicsWorld.update and to Car.update, which is never above 0.1 s, and the
\* physics world is stepped exactly once in the frame, with that delta time.
C13_SteppedWithDelta ==
    [][\A time \in Timestamps, outcome \in GroundOutcomes :
          Animate(time, outcome) =>
              /\ CallsIn(trace', "PhysicsWorld.update")
                     = << [call |-> "PhysicsWorld.update", deltaTime |-> CappedDelta(time)] >>
              /\ CallsIn(trace', "Car.update")
                     = << [call |-> "Car.update", deltaTime |-> CappedDelta(time)] >>
              /\ ~isNaN(CappedDelta(time)) => CappedDelta(time).v <= 300
              /\ CallsIn(trace', "world.step")
                     = << [call |-> "world.step", deltaTime |-> CappedDelta(time)] >>]_vars

\* C13, amended: each frame hands min((time - lastTime)/1000, 0.1) to
\* PhysicsWorld.update and to Car.update, which is never above 0.1 s, and the
\* physics world is stepped exactly once in the frame: with that delta time when
\* it is a positive number, with 1/60 s when it is NaN, zero or negative.
C13_SteppedOncePerFrame ==
    [][\A time \in Timestamps, outcome \in GroundOutcomes :
          Animate(time, outcome) =>
              /\ CallsIn(trace', "PhysicsWorld.update")
                     = << [call |-> "PhysicsWorld.update", deltaTime |-> CappedDelta(time)] >>
              /\ CallsIn(trace', "Car.update")
                     = << [call |-> "Car.update", deltaTime |-> CappedDelta(time)] >>
              /\ ~isNaN(CappedDelta(time)) => CappedDelta(time).v <= 300
              /\ CallsIn(trace', "world.step")
                     = << [call |-> "world.step",
                           deltaTime |-> IF ValidDelta(CappedDelta(time))
                                         THEN CappedDelta(time)
                                         ELSE Num(50)] >>]_vars

\* a frame that came more than 0.1 s after the one before it was run with 0.1 s
C13_Witness ==
    /\ main.lastTime = Num(4 * Tick)
    /\ CallsIn(trace, "requestAnimationFrame")
           = << [call |-> "requestAnimationFrame", deltaTime |-> Num(4 * Tick)] >>
    /\ CallsIn(trace, "Car.update") = << [call |-> "Car.update", deltaTime |-> Num(300)] >>
    /\ CallsIn(trace, "world.step") = << [call |-> "world.step", deltaTime |-> Num(300)] >>

\* C14: PhysicsWorld.update steps the engine with 1/60 s when the delta time it
\* is given is NaN, zero or negative, the zero of the first frame included, and
\* with the delta time it is given when that is a positive number.
C14_DefaultStep ==
    \A k \in DOMAIN trace :
        trace[k].call = "PhysicsWorld.update" =>
            /\ k < Len(trace)
            /\ trace[k + 1].call = "world.step"
            /\ trace[k + 1].deltaTime =
                   IF isNaN(trace[k].deltaTime) THEN Num(50)
                   ELSE IF trace[k].deltaTime.v <= 0 THEN Num(50)
                   ELSE trace[k].deltaTime

\* PhysicsWorld.update was given NaN and the engine stepped 1/60 s
C14_Witness ==
    \E k \in DOMAIN trace :
        /\ trace[k] = [call |-> "PhysicsWorld.update", deltaTime |-> NaN]
        /\ k < Len(trace)
        /\ trace[k + 1] = [call |-> "world.step", deltaTime |-> Num(50)]

\* the chassis is below y = -10 when the frame with this timestamp and this
\* outcome of the engine step calls Car.update
BelowAtUpdate(time, outcome) ==
    LET S == PhysicsWorld_update(State, CappedDelta(time), outcome)
    IN S.body[S.car.chassisBody].position.y < -21000

\* C15 as stated: when the chassis is below y = -10, the next Car.update has run
\* reset() by its end: the chassis is in the reset pose with zero velocity, the
\* steering is 0, and no exception reaches the frame, which goes on to render.
C15_RecoversInNextUpdate ==
    [][\A time \in Timestamps, outcome \in GroundOutcomes :
          BelowAtUpdate(time, outcome) /\ Animate(time, outcome) =>
              /\ resetRan'
              /\ InResetPose'
              /\ trace'[Len(trace')].call = "renderer.render"]_vars

\* C15, amended: when the chassis is below y = -10, the next Car.update with a
\* positive delta time has run reset() by its end: the chassis is in the reset
\* pose with zero velocity, the steering is 0, and no exception reaches the frame,
\* which goes on to render.
C15_RecoversInNextValidUpdate ==
    [][\A time \in Timestamps, outcome \in GroundOutcomes :
          /\ BelowAtUpdate(time, outcome)
          /\ ValidDelta(CappedDelta(time))
          /\ Animate(time, outcome)
          => /\ resetRan'
             /\ InResetPose'
             /\ trace'[Len(trace')].call = "renderer.render"]_vars

\* Car.update has recovered the car in a frame whose engine step threw, so the
\* car was below the floor before that frame
C15_Witness ==
    /\ resetRan
    /\ InResetPose
    /\ CallsIn(trace, "console.error") # << >>
    /\ CallsIn(trace, "Car.update") = << [call |-> "Car.update", deltaTime |-> Num(Tick)] >>

\* the names of the calls of a frame, in their order
CallNames(calls) == [k \in DOMAIN calls |-> calls[k].call]

\* C16: when the engine step throws, PhysicsWorld.update catches and logs it right
\* there, the frame goes on with Car.update, the map and the render and logs no second
\* error, the next frame has been requested, and the loop is ready to take it.
C16_StepErrorContained ==
    /\ [][\A time \in Timestamps, outcome \in GroundOutcomes :
             outcome = "throw" /\ Animate(time, outcome) =>
                 /\ CallNames(trace') =
                        << "requestAnimationFrame", "PhysicsWorld.update", "world.step",
                           "console.error", "Car.update", "GridMap.update",
                           "renderer.render" >>
                 /\ main'.pending]_vars
    /\ [](CallsIn(trace, "console.error") # << >> =>
              /\ main.pending
              /\ \E time \in Timestamps, outcome \in GroundOutcomes :
                     CanAnimate(time, outcome))

\* the engine step threw in a frame whose Car.update turned the steering
C16_Witness ==
    /\ CallsIn(trace, "console.error") # << >>
    /\ CallsIn(trace, "Car.update") = << [call |-> "Car.update", deltaTime |-> Num(300)] >>
    /\ ~resetRan
    /\ car.steering = 600
    /\ main.pending

\* the angular and the linear damping of wheel i, in hundredths
DampingOf(bodies, i) ==
    << bodies[car.wheelBodies[i]].angularDamping, bodies[car.wheelBodies[i]].linearDamping >>

\* the damping of the front wheels after a frame: as before it, or, when the frame
\* ran reset(), the 0.1 / 0.05 reset() gives every wheel
FrontDampingKept ==
    \A i \in 1..2 :
        DampingOf(body', i) = IF resetRan' THEN << 10, 5 >> ELSE DampingOf(body, i)

\* C17 as stated: after every Car.update with a valid delta time each rear wheel
\* has the damping 0.95 / 0.9 if brake was held at that update and 0.1 / 0.05 if
\* not; braking never changes the damping of the front wheels.
C17_BrakeDamping ==
    [][\A deltaTime \in GroundDeltaTimes, outcome \in GroundOutcomes :
          ValidDelta(deltaTime) /\ GroundFrame(deltaTime, outcome) =>
              /\ \A i \in 3..4 :
                     DampingOf(body', i) =
                         IF car.controls.brake THEN << 95, 90 >> ELSE << 10, 5 >>
              /\ FrontDampingKept]_vars

\* C17, amended: after every Car.update with a valid delta time that does not end
\* in the automatic reset each rear wheel has the damping 0.95 / 0.9 if brake was
\* held at that update and 0.1 / 0.05 if not; an update that ends in the reset
\* leaves 0.1 / 0.05 whatever brake was; braking never changes the damping of the
\* front wheels.
C17_BrakeDampingUnlessReset ==
    [][\A deltaTime \in GroundDeltaTimes, outcome \in GroundOutcomes :
          ValidDelta(deltaTime) /\ GroundFrame(deltaTime, outcome) =>
              /\ \A i \in 3..4 :
                     DampingOf(body', i) =
                         IF resetRan' THEN << 10, 5 >>
                         ELSE IF car.controls.brake THEN << 95, 90 >>
                         ELSE << 10, 5 >>
              /\ FrontDampingKept]_vars

\* the brake is held and the rear wheels carry the braking damping, the front
\* wheels the damping they were created with
C17_Witness ==
    /\ car.controls.brake
    /\ ~resetRan
    /\ \A i \in 3..4 : DampingOf(body, i) = << 95, 90 >>
    /\ \A i \in 1..2 : DampingOf(body, i) = << 20, 1 >>

\* the forces a frame has applied to body id: those on the body after the frame
\* less the ones that were pending before it and that a throwing step has left
ForcesAppliedIn(id, outcome) ==
    LET kept == IF outcome = "throw" THEN Len(body[id].force) ELSE 0
    IN [k \in 1..(Len(body'[id].force) - kept) |-> body'[id].force[kept + k]]

\* the orientation of body id when the frame calls Car.update, after its engine step
QuaternionAtUpdate(id, deltaTime, outcome) ==
    PhysicsWorld_update(State, deltaTime, outcome).body[id].quaternion

\* C18: an update applies the engine force to the two rear wheels only and to no
\* front wheel, chassis or bumper particle; the force on a rear wheel is the
\* wheel's orientation applied to the local +X axis, scaled by the engine force,
\* at the wheel's own position; with the engine force 0 no force is applied.
C18_ForceOnRearWheels ==
    [][\A deltaTime \in GroundDeltaTimes, outcome \in GroundOutcomes :
          ValidDelta(deltaTime) /\ GroundFrame(deltaTime, outcome) =>
              /\ \A i \in 3..4 :
                     ForcesAppliedIn(car.wheelBodies[i], outcome) =
                         IF ~car.controls.forward /\ ~car.controls.backward
                         THEN << >>
                         ELSE << [force |->
                                     [dir   |-> [rot   |-> QuaternionAtUpdate(car.wheelBodies[i],
                                                               deltaTime, outcome),
                                                 local |-> Vec(1, 0, 0)],
                                      scale |-> IF car.controls.forward THEN 500 ELSE -250],
                                  at |-> Zero3] >>
              /\ \A id \in DOMAIN body :
                     id \notin {car.wheelBodies[3], car.wheelBodies[4]} =>
                         body'[id].force = << >>]_vars

\* a rear wheel carries the forward force along its own +X axis at its centre, and
\* the front wheels and the chassis carry none
C18_Witness ==
    /\ ~resetRan
    /\ \E i \in 3..4 :
           LET b == body[car.wheelBodies[i]]
           IN b.force = << [force |-> [dir   |-> [rot |-> b.quaternion, local |-> Vec(1, 0, 0)],
                                       scale |-> 500],
                            at |-> Zero3] >>
    /\ \A i \in 1..2 : body[car.wheelBodies[i]].force = << >>
    /\ body[car.chassisBody].force = << >>

\* the rotation by the steering angle about the up axis, then applied after the
\* quarter turn about z a wheel has at rest
SteeredFrom(steering) ==
    IF steering = 0
    THEN << [axis |-> "z", angle |-> [mrad |-> 0, quarter |-> 1]] >>
    ELSE << [axis |-> "y", angle |-> [mrad |-> steering, quarter |-> 0]],
            [axis |-> "z", angle |-> [mrad |-> 0, quarter |-> 1]] >>

\* C20: after the updateSteering of an update both front wheels have one and the
\* same orientation, the rotation by the new steering angle about the up axis
\* composed with the rest rotation of a wheel; the orientation of the rear wheels
\* is the one the engine step left, or the rest rotation when the update ended in
\* reset(): steering does not write it.
C20_FrontWheelsSteered ==
    [][\A deltaTime \in GroundDeltaTimes, outcome \in GroundOutcomes :
          ValidDelta(deltaTime) /\ GroundFrame(deltaTime, outcome) =>
              /\ \A i \in 1..2 :
                     body'[car.wheelBodies[i]].quaternion = SteeredFrom(car'.steering)
              /\ \A i \in 3..4 :
                     body'[car.wheelBodies[i]].quaternion =
                         IF resetRan'
                         THEN << [axis |-> "z", angle |-> [mrad |-> 0, quarter |-> 1]] >>
                         ELSE QuaternionAtUpdate(car.wheelBodies[i], deltaTime, outcome)]_vars

\* both front wheels are turned by the steering angle, which is on its way to the
\* limit, and the rear wheels are not
C20_Witness ==
    /\ ~resetRan
    /\ car.steering = 600
    /\ \A i \in 1..2 : body[car.wheelBodies[i]].quaternion = SteeredFrom(600)
    /\ \A i \in 3..4 : body[car.wheelBodies[i]].quaternion = SteeredFrom(0)

\* a soft body {bodies, constraints} of n particles in the heap bodies has one
\* spring for each unordered pair of distinct particles and no other, each spring
\* with the given coefficients, and each particle the n-th part of totalMass
WellSprung(soft, bodies, n, totalMass, stiffness, damping) ==
    /\ Len(soft.bodies) = n
    /\ \A i \in 1..n : bodies[soft.bodies[i]].mass * n = totalMass
    /\ 2 * Len(soft.constraints) = n * (n - 1)
    /\ \A k \in DOMAIN soft.constraints :
           /\ soft.constraints[k].bodyA # soft.constraints[k].bodyB
           /\ \E i, j \in 1..n : /\ soft.constraints[k].bodyA = soft.bodies[i]
                                /\ soft.constraints[k].bodyB = soft.bodies[j]
           /\ soft.constraints[k].stiffness = stiffness
           /\ soft.constraints[k].damping = damping
           /\ \A l \in DOMAIN soft.constraints :
                  {soft.constraints[l].bodyA, soft.constraints[l].bodyB}
                      = {soft.constraints[k].bodyA, soft.constraints[k].bodyB} => l = k
    /\ \A i, j \in 1..n :
           i # j => \E k \in DOMAIN soft.constraints :
                       {soft.constraints[k].bodyA, soft.constraints[k].bodyB}
                           = {soft.bodies[i], soft.bodies[j]}

\* C21: createSoftBody on n rest positions, for n from 0 to 8, makes one spring
\* for every unordered pair of distinct particles, n(n-1)/2 in all, none from a
\* particle to itself and no two for one pair, each with the stiffness and the
\* damping passed in, and gives each particle the mass totalMass / n; and the
\* bumper of the car is at all times such a soft body of 8 particles and 28
\* springs, with the mass 100 and the coefficients 1000 and 0.3 it was made with.
C21_OneSpringPerPair ==
    /\ \A n \in 0..segments :
           LET S == createSoftBody(State, [i \in 1..n |-> CreatedAt(i)], 840, 100, 10)
           IN WellSprung(S.car.frontBumper, S.body, n, 840, 100, 10)
    /\ [](/\ WellSprung(car.frontBumper, body, 8, 1000, 1000, 30)
          /\ Len(car.frontBumper.constraints) = 28)

\* the bumper has its 28 springs while its particles are pushed in by a collision
C21_Witness ==
    /\ Len(car.frontBumper.constraints) = 28
    /\ \E i \in 1..segments :
           body[car.frontBumper.bodies[i]].position
               # VAdd(body[car.chassisBody].position, frontBumperPosition(i - 1, segments))
    /\ body[car.frontBumper.bodies[1]].mass = 125

\* the constraints of the world of one type between the chassis and body id
ConstraintsTo(id, type) ==
    {k \in DOMAIN physicsWorld.constraints :
        /\ physicsWorld.constraints[k].type = type
        /\ physicsWorld.constraints[k].bodyA = car.chassisBody
        /\ physicsWorld.constraints[k].bodyB = id}

\* C22: each of the four wheels is connected to the chassis by exactly two
\* constraints of the world, one hinge and one point-to-point suspension, which
\* are the two the car keeps for it in wheelConstraints; each of the eight bumper
\* particles by exactly one point-to-point tether and no hinge; and the world holds
\* these 8 + 8 constraints and no other.
C22_WheelAndTetherConstraints ==
    /\ Len(car.wheelBodies) = 4
    /\ Len(car.wheelConstraints) = 4
    /\ \A i \in 1..4 :
           /\ ConstraintsTo(car.wheelBodies[i], "hinge") = {car.wheelConstraints[i].hinge}
           /\ ConstraintsTo(car.wheelBodies[i], "pointToPoint")
                  = {car.wheelConstraints[i].suspension}
    /\ Len(car.frontBumper.bodies) = 8
    /\ \A i \in 1..8 :
           /\ Cardinality(ConstraintsTo(car.frontBumper.bodies[i], "pointToPoint")) = 1
           /\ ConstraintsTo(car.frontBumper.bodies[i], "hinge") = {}
    /\ Len(physicsWorld.constraints) = 16
    /\ \A k \in DOMAIN physicsWorld.constraints :
           /\ physicsWorld.constraints[k].bodyA = car.chassisBody
           /\ physicsWorld.constraints[k].bodyB # car.chassisBody

\* the car as it was built, nothing having moved: the fourth wheel hangs on the
\* seventh and the eighth constraint of the world
C22_Witness ==
    /\ ~resetRan
    /\ car.wheelConstraints[4] = [suspension |-> 7, hinge |-> 8]
    /\ physicsWorld.constraints[8].type = "hinge"
    /\ physicsWorld.constraints[16].bodyB = car.frontBumper.bodies[8]
    /\ body[car.chassisBody].position = car.position

\* C23: at the moment a frame is rendered, every tracked body that has a mesh
\* (the chassis, the bumper particles) has the position and the orientation of the
\* body in that mesh.
C23_MeshesMatchAtRender ==
    main.pending =>
        \A id \in DOMAIN mesh :
            mesh[id].tracked =>
                /\ mesh[id].position = body[id].position
                /\ mesh[id].quaternion = body[id].quaternion

\* the steering angle after an update is within the rate of the angle before it:
\* up by at most 2.0 * dt toward +0.5 with left held, down by at most 2.0 * dt
\* toward -0.5 with right held and left not, and by at most 3.0 * dt toward 0, not
\* past it, with neither held; it stands still only at the limit or at 0
RateLimited(before, after, controls, dt) ==
    IF controls.left
    THEN /\ after - before \in 0..(2 * dt)
         /\ after <= 1500
         /\ after = before => before = 1500
    ELSE IF controls.right
    THEN /\ before - after \in 0..(2 * dt)
         /\ after >= -1500
         /\ after = before => before = -1500
    ELSE /\ Abs(after - before) <= 3 * dt
         /\ Abs(after) <= Abs(before)
         /\ after * before >= 0
         /\ after = before => before = 0

\* C24 as stated: in every update(dt) the steering angle changes within the rate.
C24_SteeringRate ==
    [][\A deltaTime \in GroundDeltaTimes, outcome \in GroundOutcomes :
          ValidDelta(deltaTime) /\ GroundFrame(deltaTime, outcome) =>
              RateLimited(car.steering, car'.steering, car.controls, deltaTime.v)]_vars

\* C24, amended: in every update(dt) that does not end in the automatic reset the
\* steering angle changes within the rate; an update that ends in reset() leaves
\* the angle 0 whatever it was.
C24_SteeringRateUnlessReset ==
    [][\A deltaTime \in GroundDeltaTimes, outcome \in GroundOutcomes :
          ValidDelta(deltaTime) /\ GroundFrame(deltaTime, outcome) =>
              IF resetRan'
              THEN car'.steering = 0
              ELSE RateLimited(car.steering, car'.steering, car.controls, deltaTime.v)]_vars

\* the angle is on its way back to the centre from the left, a third of a step of
\* the return rate away from it
C24_Witness ==
    /\ ~resetRan
    /\ ~car.controls.left
    /\ ~car.controls.right
    /\ car.steering = 300

\* C25: when the car has been built and no frame has run yet, the chassis is at
\* least height/2 + 0.5 = 1.2 above y = 0, also when the car was built at the
\* default position (0,1,0).
C25_ChassisAboveGround ==
    ~main.pending => body[car.chassisBody].position.y >= height \div 2 + Unit \div 2

\* what the frame would leave had the flag not been held when it began
FrameWithout(flag, deltaTime, outcome) ==
    frame([State EXCEPT !.car.controls[flag] = FALSE], deltaTime, outcome)

\* C26: with left and right both held an update moves the steering angle toward
\* +maxSteeringAngle, by 2.0 * dt up to the limit, and leaves the angle and every
\* body exactly as it would with left alone; with forward and backward both held
\* the force on each rear wheel is +maxForce = 500, and the bodies are exactly as
\* the update would leave them with forward alone.
C26_FirstTestedWins ==
    [][\A deltaTime \in GroundDeltaTimes, outcome \in GroundOutcomes :
          ValidDelta(deltaTime) /\ GroundFrame(deltaTime, outcome) =>
              /\ car.controls.left /\ car.controls.right =>
                     /\ car'.steering = FrameWithout("right", deltaTime, outcome).car.steering
                     /\ body' = FrameWithout("right", deltaTime, outcome).body
                     /\ ~resetRan' =>
                            car'.steering =
                                IF car.steering + 2 * deltaTime.v < 1500
                                THEN car.steering + 2 * deltaTime.v
                                ELSE 1500
              /\ car.controls.forward /\ car.controls.backward =>
                     /\ body' = FrameWithout("backward", deltaTime, outcome).body
                     /\ \A i \in 3..4 :
                            AppliedIn(car.wheelBodies[i], outcome) = << 500 >>]_vars

\* left and right are both held and an update has turned the wheels to the left
C26_Witness ==
    /\ ~resetRan
    /\ car.controls.left
    /\ car.controls.right
    /\ car.steering = 1200
    /\ body[car.wheelBodies[1]].quaternion = SteeredFrom(1200)

\* C27: an update with brake held together with forward or backward applies the
\* engine force, +500 or -250, to both rear wheels as it would without the brake,
\* and, unless it ends in reset(), leaves the braking damping 0.95 / 0.9 on them.
C27_BrakeKeepsEngine ==
    [][\A deltaTime \in GroundDeltaTimes, outcome \in GroundOutcomes :
          /\ ValidDelta(deltaTime)
          /\ car.controls.brake
          /\ car.controls.forward \/ car.controls.backward
          /\ GroundFrame(deltaTime, outcome)
          => \A i \in 3..4 :
                 /\ AppliedIn(car.wheelBodies[i], outcome) =
                        IF car.controls.forward THEN << 500 >> ELSE << -250 >>
                 /\ ~resetRan' => DampingOf(body', i) = << 95, 90 >>]_vars

\* brake and backward are held, and both rear wheels carry the reverse force and
\* the braking damping of one update
C27_Witness ==
    /\ ~resetRan
    /\ car.controls.brake
    /\ car.controls.backward
    /\ \A i \in 3..4 :
           /\ DampingOf(body, i) = << 95, 90 >>
           /\ Len(body[car.wheelBodies[i]].force) = 1
           /\ body[car.wheelBodies[i]].force[1].force.scale = -250

C29_InvalidDeltaNoOp ==
    [][\A time \in Timestamps, outcome \in GroundOutcomes :
          ~ValidDelta(CappedDelta(time)) /\ Animate(time, outcome) =>
              /\ CallsIn(trace', "Car.update")
                     = << [call |-> "Car.update", deltaTime |-> CappedDelta(time)] >>
              /\ CallsIn(trace', "world.step")
                     = << [call |-> "world.step", deltaTime |-> Num(50)] >>
              /\ car' = car
              /\ body' = PhysicsWorld_update(State, CappedDelta(time), outcome).body
              /\ \A i \in 1..4 :
                     /\ DampingOf(body', i) = DampingOf(body, i)
                     /\ ForcesAppliedIn(car.wheelBodies[i], outcome) = << >>
              /\ ~resetRan']_vars

\* a frame with the delta time 0 has left the car below the floor, the forward key
\* held, the wheels turned, and no force on the rear wheels
C29_Witness ==
    /\ CallsIn(trace, "Car.update") = << [call |-> "Car.update", deltaTime |-> Num(0)] >>
    /\ body[car.chassisBody].position.y < -21000
    /\ car.controls.forward
    /\ car.steering = 600
    /\ body[car.wheelBodies[3]].force = << >>
    /\ main.lastTime = Num(3 * Tick)

\* the calls of one frame callback, in the order of animate()
FrameOrder(outcome) ==
    << "requestAnimationFrame", "PhysicsWorld.update", "world.step" >>
    \o (IF outcome = "throw" THEN << "console.error" >> ELSE << >>)
    \o << "Car.update", "GridMap.update", "renderer.render" >>

\* C30: a frame callback runs PhysicsWorld.update, Car.update, GridMap.update and
\* the render in this order, and the flags are the same throughout the frame (only
\* reset() within it clears them), a key event being a step of its own that
\* touches no body and no frame; so the engine step of a frame sees the forces
\* pending from the frame before (it takes them unless it throws) and the force
\* and the damping the frame's Car.update derives come after it and wait for the
\* step of the next frame.
C30_UpdateFeedsNextStep ==
    [][/\ \A time \in Timestamps, outcome \in GroundOutcomes :
             Animate(time, outcome) =>
                 /\ CallNames(trace') = FrameOrder(outcome)
                 /\ ~resetRan' => car'.controls = car.controls
                 /\ ValidDelta(CappedDelta(time)) =>
                        \A i \in 3..4 :
                            LET id == car.wheelBodies[i]
                                stepped == PhysicsWorld_update(State, CappedDelta(time),
                                                               outcome).body[id]
                                applied == IF car.controls.forward THEN << 500 >>
                                           ELSE IF car.controls.backward THEN << -250 >>
                                           ELSE << >>
                            IN /\ stepped.force =
                                      IF outcome = "throw" THEN body[id].force ELSE << >>
                               /\ << stepped.angularDamping, stepped.linearDamping >>
                                      = DampingOf(body, i)
                               /\ Len(body'[id].force) = Len(stepped.force) + Len(applied)
                               /\ AppliedIn(id, outcome) = applied
                               /\ ~resetRan' =>
                                      DampingOf(body', i) =
                                          IF car.controls.brake THEN << 95, 90 >>
                                          ELSE << 10, 5 >>
       /\ \A key \in LoopKeys :
             KeyDown(key) \/ KeyUp(key) =>
                 /\ body' = body
                 /\ trace' = trace
                 /\ main' = main]_vars

\* the third tick's frame has run in order with the forward key held: its step
\* has taken what was pending, and each rear wheel carries the one force and the
\* damping of its Car.update, which wait for the next step
C30_Witness ==
    /\ CallNames(trace) = FrameOrder("rest")
    /\ main.lastTime = Num(2 * Tick)
    /\ ~resetRan
    /\ car.controls.forward
    /\ \A i \in 3..4 :
           /\ Len(body[car.wheelBodies[i]].force) = 1
           /\ body[car.wheelBodies[i]].force[1].force.scale = 500
           /\ DampingOf(body, i) = << 10, 5 >>

=============================================================================
